---- MODULE Spec2Model ----
(***************************************************************************)
(* Model of countdown_bot.py: the three in-memory stores, the command      *)
(* handlers that are reached through the webhook route, the two reminder   *)
(* jobs (with their suspension points inside send_message), and the        *)
(* startup sequence of run_bot / setup_webhook.                            *)
(*                                                                         *)
(* Text is modelled as a tuple of one-character strings so that parsing    *)
(* is computed character by character, as strptime and float do.           *)
(***************************************************************************)
EXTENDS Integers, Sequences, FiniteSets, TLC

VARIABLES
    user_dates,         \* dict user_id -> naive datetime (insertion ordered)
    user_water_info,    \* dict user_id -> {height, weight, daily_target}
    user_water_counts,  \* dict user_id -> ml
    bot,                \* run_bot / setup_webhook / process position
    dailyJob,           \* the daily_reminder coroutine
    waterJob,           \* the water_reminder coroutine
    out,                \* the last thing the process emitted (reply, push, HTTP status)
    logged              \* history: per user, /water successes since the last /sethealth success

vars == <<user_dates, user_water_info, user_water_counts, bot, dailyJob, waterJob, out, logged>>

stores == <<user_dates, user_water_info, user_water_counts>>

(***************************************************************************)
(* Bounds and inputs                                                       *)
(***************************************************************************)

\* Chat ids of the users that talk to the bot.  The first two use every
\* command; the third one only ever registers.
Regulars == {101, 102}
Users == Regulars \cup {103}

\* A user stops logging water after this many /water calls on one profile.
MaxWater == 5

\* Program constants.
WaterStep == 250
MlPerKg == 35
MinHeight == 100
MaxHeight == 250
MinWeight == 30
MaxWeight == 200
ReminderHour == 10
ReminderMinute == 50
UtcShift == 7
DaySeconds == 24 * 60 * 60

Chars(n) == CASE n = 0 -> "0" [] n = 1 -> "1" [] n = 2 -> "2" [] n = 3 -> "3" [] n = 4 -> "4"
              [] n = 5 -> "5" [] n = 6 -> "6" [] n = 7 -> "7" [] n = 8 -> "8" [] n = 9 -> "9"

Digits == {Chars(n) : n \in 0..9}

DigitVal(c) == CHOOSE n \in 0..9 : Chars(n) = c

(***************************************************************************)
(* Python dict, insertion ordered, no deletions: a sequence of entries.    *)
(***************************************************************************)

Keys(d) == {d[i].k : i \in 1..Len(d)}

Has(d, key) == key \in Keys(d)

Pos(d, key) == CHOOSE i \in 1..Len(d) : d[i].k = key

Get(d, key) == d[Pos(d, key)].v

GetOr(d, key, default) == IF Has(d, key) THEN Get(d, key) ELSE default

\* d[key] = val : an existing key keeps its place, a new key is appended.
Put(d, key, val) ==
    IF Has(d, key)
    THEN [d EXCEPT ![Pos(d, key)] = [k |-> key, v |-> val]]
    ELSE Append(d, [k |-> key, v |-> val])

(***************************************************************************)
(* datetime.strptime(date_str, '%Y-%m-%d')                                 *)
(* The format compiles to the regular expression                           *)
(*   (\d\d\d\d)-(1[0-2]|0[1-9]|[1-9])-(3[01]|[12]\d|0[1-9]|[1-9]| [1-9])   *)
(* matched at the start of the text; text left over after the match, or a  *)
(* day the month does not have, is a ValueError.                           *)
(***************************************************************************)

At(s, i) == IF i >= 1 /\ i <= Len(s) THEN s[i] ELSE "$"

IsDigit(c) == c \in Digits

NonZero(c) == IsDigit(c) /\ c # "0"

NoMatch == [ok |-> FALSE, val |-> 0, next |-> 0]

Match(v, n) == [ok |-> TRUE, val |-> v, next |-> n]

\* (\d\d\d\d) at position i
MatchYear(s, i) ==
    IF \A j \in i..(i + 3) : IsDigit(At(s, j))
    THEN Match(1000 * DigitVal(s[i]) + 100 * DigitVal(s[i + 1]) + 10 * DigitVal(s[i + 2]) + DigitVal(s[i + 3]), i + 4)
    ELSE NoMatch

\* (1[0-2]|0[1-9]|[1-9]) at position i, followed by the literal "-": the
\* alternatives are tried in order and one is kept only if "-" follows it.
MatchMonth(s, i) ==
    LET a == At(s, i)
        b == At(s, i + 1)
    IN  IF a = "1" /\ b \in {"0", "1", "2"} /\ At(s, i + 2) = "-"
        THEN Match(10 + DigitVal(b), i + 2)
        ELSE IF a = "0" /\ NonZero(b) /\ At(s, i + 2) = "-"
        THEN Match(DigitVal(b), i + 2)
        ELSE IF NonZero(a) /\ b = "-"
        THEN Match(DigitVal(a), i + 1)
        ELSE NoMatch

\* (3[01]|[12]\d|0[1-9]|[1-9]| [1-9]) at position i, the last group of the
\* expression: the first alternative that matches ends the match.
MatchDay(s, i) ==
    LET a == At(s, i)
        b == At(s, i + 1)
    IN  IF a = "3" /\ b \in {"0", "1"}
        THEN Match(30 + DigitVal(b), i + 2)
        ELSE IF a \in {"1", "2"} /\ IsDigit(b)
        THEN Match(10 * DigitVal(a) + DigitVal(b), i + 2)
        ELSE IF a = "0" /\ NonZero(b)
        THEN Match(DigitVal(b), i + 2)
        ELSE IF NonZero(a)
        THEN Match(DigitVal(a), i + 1)
        ELSE IF a = " " /\ NonZero(b)
        THEN Match(DigitVal(b), i + 2)
        ELSE NoMatch

IsLeap(y) == y % 4 = 0 /\ (y % 100 # 0 \/ y % 400 = 0)

DaysInMonth(y, m) ==
    IF m = 2 THEN (IF IsLeap(y) THEN 29 ELSE 28)
    ELSE IF m \in {4, 6, 9, 11} THEN 30 ELSE 31

ValueError == [ok |-> FALSE]

strptime(s) ==
    LET Y == MatchYear(s, 1)
        m == MatchMonth(s, Y.next + 1)
        d == MatchDay(s, m.next + 1)
    IN  IF ~Y.ok \/ At(s, Y.next) # "-" THEN ValueError
        ELSE IF ~m.ok THEN ValueError
        ELSE IF ~d.ok THEN ValueError
        ELSE IF d.next # Len(s) + 1 THEN ValueError            \* unconverted data remains
        ELSE IF Y.val < 1 THEN ValueError                      \* year 0 is out of range
        ELSE IF d.val > DaysInMonth(Y.val, m.val) THEN ValueError
        ELSE [ok |-> TRUE, val |-> [y |-> Y.val, m |-> m.val, d |-> d.val, secs |-> 0]]

(***************************************************************************)
(* datetime arithmetic: a datetime is [y, m, d, secs], secs the seconds    *)
(* since midnight.                                                         *)
(***************************************************************************)

DaysBeforeYear(y) == (y - 1) * 365 + ((y - 1) \div 4) - ((y - 1) \div 100) + ((y - 1) \div 400)

RECURSIVE DaysBeforeMonth(_, _)
DaysBeforeMonth(y, m) == IF m = 1 THEN 0 ELSE DaysBeforeMonth(y, m - 1) + DaysInMonth(y, m - 1)

toordinal(dt) == DaysBeforeYear(dt.y) + DaysBeforeMonth(dt.y, dt.m) + dt.d

\* Mutant: the difference of the dates alone, the time of day dropped.
SubDays_trunc(a, b) == toordinal(a) - toordinal(b)

\* (a - b).days : timedelta(days1 - days2, secs1 - secs2) normalised so that
\* 0 <= seconds < 86400, the borrow going to the days.
SubDays(a, b) ==
    LET days == toordinal(a) - toordinal(b)
        secs == a.secs - b.secs
    IN  IF secs < 0 THEN days - 1 ELSE days

strftime(dt) == <<dt.y, dt.m, dt.d>>

\* A wall-clock time shifted by a number of seconds (tz.fromutc for a fixed offset).
Shift(dt, s) ==
    LET t == dt.secs + s
    IN  IF t >= DaySeconds
        THEN IF dt.d < DaysInMonth(dt.y, dt.m)
             THEN [dt EXCEPT !.d = dt.d + 1, !.secs = t - DaySeconds]
             ELSE IF dt.m < 12
             THEN [dt EXCEPT !.m = dt.m + 1, !.d = 1, !.secs = t - DaySeconds]
             ELSE [dt EXCEPT !.y = dt.y + 1, !.m = 1, !.d = 1, !.secs = t - DaySeconds]
        ELSE [dt EXCEPT !.secs = t]

(***************************************************************************)
(* float(text), for the texts the model feeds it: a run of decimal digits  *)
(* is its value, "nan" is the NaN, anything else here is a ValueError.     *)
(***************************************************************************)

RECURSIVE DecimalValue(_, _)
DecimalValue(s, n) == IF n = 0 THEN 0 ELSE 10 * DecimalValue(s, n - 1) + DigitVal(s[n])

float(s) ==
    IF Len(s) > 0 /\ \A i \in 1..Len(s) : IsDigit(s[i])
    THEN [ok |-> TRUE, nan |-> FALSE, val |-> DecimalValue(s, Len(s))]
    ELSE IF s = <<"n", "a", "n">>
    THEN [ok |-> TRUE, nan |-> TRUE, val |-> 0]
    ELSE [ok |-> FALSE, nan |-> FALSE, val |-> 0]

\* Mutant: the bounds excluded.
Between_strict(lo, x, hi) == ~x.nan /\ lo < x.val /\ x.val < hi

\* lo <= x <= hi on floats: every comparison with the NaN is false.
Between(lo, x, hi) == ~x.nan /\ lo <= x.val /\ x.val <= hi

\* f"{current / target * 100:.1f}", in tenths of a percent (nearest tenth).
Percent(current, target) == (2000 * current + target) \div (2 * target)

(***************************************************************************)
(* What the process emits.  src says who emitted it; for a webhook request *)
(* header and req are the request, status its HTTP status and disp the     *)
(* number of times it was handed to the dispatcher.                        *)
(***************************************************************************)

None == "None"

Clock(y, m, d, secs) == [y |-> y, m |-> m, d |-> d, secs |-> secs]

NoClock == Clock(1, 1, 1, 0)

Cmd(c, u, a, t) == [cmd |-> c, user |-> u, args |-> a, now |-> t]

Request(h, update) ==
    [header |-> h, cmd |-> update.cmd, user |-> update.user, args |-> update.args, now |-> update.now]

NoRequest == Request(None, Cmd("none", 0, <<>>, NoClock))

Nothing ==
    [src |-> "none", req |-> NoRequest, status |-> 0, disp |-> 0,
     to |-> 0, kind |-> "none", n |-> 0, m |-> 0, pct |-> 0, date |-> <<>>, fail |-> FALSE]

\* update.message.reply_text(...) of a handler, and the 200 of handle_webhook
Reply(update, kind) ==
    [Nothing EXCEPT !.src = "webhook", !.req = update, !.status = 200, !.disp = 1,
                    !.to = update.user, !.kind = kind]

\* context.bot.send_message(chat_id=u, ...) of a job
Push(job, u, kind) == [Nothing EXCEPT !.src = job, !.to = u, !.kind = kind]

(***************************************************************************)
(* Command handlers.  Each one changes the stores before its only await    *)
(* (the reply), so a handler is one step.                                  *)
(***************************************************************************)

start(update) ==
    /\ out' = Reply(update, "greeting")
    /\ UNCHANGED <<stores, logged>>

help_command(update) ==
    /\ out' = Reply(update, "help")
    /\ UNCHANGED <<stores, logged>>

setdate(update) ==
    LET parsed == strptime(update.args[1])
    IN  IF Len(update.args) > 0
        THEN IF parsed.ok
             THEN /\ user_dates' = Put(user_dates, update.user, parsed.val)
                  /\ out' = Reply(update, "date_set")
                  /\ UNCHANGED <<user_water_info, user_water_counts, logged>>
             ELSE /\ out' = Reply(update, "invalid_date_format")
                  /\ UNCHANGED <<stores, logged>>
        ELSE /\ out' = Reply(update, "date_usage")
             /\ UNCHANGED <<stores, logged>>

countdown(update) ==
    /\ IF ~Has(user_dates, update.user)
       THEN out' = Reply(update, "set_date_first")
       ELSE LET target_date == Get(user_dates, update.user)
                days == SubDays(target_date, update.now)
            IN  IF days >= 0
                THEN out' = [Reply(update, "days_remaining") EXCEPT !.n = days, !.date = strftime(target_date)]
                ELSE out' = Reply(update, "date_passed")
    /\ UNCHANGED <<stores, logged>>

sethealth(update) ==
    IF Len(update.args) = 2
    THEN LET height == float(update.args[1])
             weight == float(update.args[2])
         IN  IF ~height.ok \/ ~weight.ok
             THEN /\ out' = Reply(update, "invalid_health_format")
                  /\ UNCHANGED <<stores, logged>>
             ELSE IF Between(MinHeight, height, MaxHeight) /\ Between(MinWeight, weight, MaxWeight)
             THEN LET daily_water == weight.val * MlPerKg
                  IN  /\ user_water_info' = Put(user_water_info, update.user,
                              [height |-> height.val, weight |-> weight.val, daily_target |-> daily_water])
                      /\ user_water_counts' = Put(user_water_counts, update.user, 0)
                      /\ out' = [Reply(update, "health_set") EXCEPT !.n = daily_water]
                      /\ logged' = [logged EXCEPT ![update.user] = 0]
                      /\ UNCHANGED user_dates
             ELSE /\ out' = Reply(update, "health_out_of_range")
                  /\ UNCHANGED <<stores, logged>>
    ELSE /\ out' = Reply(update, "health_usage")
         /\ UNCHANGED <<stores, logged>>

\* Mutant: the counter is set to one glass instead of being added to.
water_overwrite(update) ==
    IF ~Has(user_water_info, update.user)
    THEN /\ out' = Reply(update, "set_health_first")
         /\ UNCHANGED <<stores, logged>>
    ELSE LET current == WaterStep
             target == Get(user_water_info, update.user).daily_target
         IN  /\ user_water_counts' = Put(user_water_counts, update.user, current)
             /\ out' = [Reply(update, "water_added") EXCEPT !.n = current, !.m = target, !.pct = Percent(current, target)]
             /\ logged' = [logged EXCEPT ![update.user] = @ + 1]
             /\ UNCHANGED <<user_dates, user_water_info>>

water(update) ==
    IF ~Has(user_water_info, update.user)
    THEN /\ out' = Reply(update, "set_health_first")
         /\ UNCHANGED <<stores, logged>>
    ELSE LET current == GetOr(user_water_counts, update.user, 0) + WaterStep
             target == Get(user_water_info, update.user).daily_target
         IN  /\ user_water_counts' = Put(user_water_counts, update.user, current)
             /\ out' = [Reply(update, "water_added") EXCEPT !.n = current, !.m = target, !.pct = Percent(current, target)]
             /\ logged' = [logged EXCEPT ![update.user] = @ + 1]
             /\ UNCHANGED <<user_dates, user_water_info>>

(***************************************************************************)
(* POST /webhook                                                           *)
(***************************************************************************)

\* _bot_app.process_update(update): the CommandHandler registered for the command runs.
process_update(update) ==
    CASE update.cmd = "start" -> start(update)
      [] update.cmd = "help" -> help_command(update)
      [] update.cmd = "setdate" -> setdate(update)
      [] update.cmd = "countdown" -> countdown(update)
      [] update.cmd = "sethealth" -> sethealth(update)
      [] update.cmd = "water" -> water(update)

\* Mutant: the secret header is not looked at.
handle_webhook_open(request) == process_update(request)

\* request: the secret header and, in the body, the update
handle_webhook(request) ==
    IF request.header # bot.token
    THEN /\ out' = [Nothing EXCEPT !.src = "webhook", !.req = request, !.status = 403]
         /\ UNCHANGED <<stores, logged>>
    ELSE process_update(request)

(***************************************************************************)
(* Reminder jobs.  A job runs from one suspension point (the await of      *)
(* send_message) to the next in one step.  Its for loop holds a dict       *)
(* iterator: the place reached and the size the dict had when the loop     *)
(* began; the iterator raises RuntimeError ("dictionary changed size       *)
(* during iteration") when asked for the next item of a dict whose size    *)
(* is no longer that one, and the loop is outside the try.                 *)
(*                                                                         *)
(* A job that ends leaves an event in out: how it ended, the place its     *)
(* iterator had reached (n), the size of the dict when it began (m), and   *)
(* whether a send of this firing raised.                                   *)
(***************************************************************************)

Idle == [pc |-> "idle", pos |-> 0, used |-> 0, now |-> NoClock, failed |-> FALSE]

Ended(name, how, job) ==
    [Nothing EXCEPT !.src = name, !.kind = how, !.n = job.pos, !.m = job.used, !.fail = job.failed]

\* time((vietnam_time.hour - 7) % 24, vietnam_time.minute), seconds since midnight
utc_time == (((ReminderHour - UtcShift) % 24) * 60 + ReminderMinute) * 60

\* datetime.now(VN_TIMEZONE) when the job queue runs the job at utc_time of a UTC day
VnNow(day) == Shift([day EXCEPT !.secs = utc_time], UtcShift * 3600)

\* (VN_TIMEZONE.localize(target_date) - now).days : both carry the same +07:00
\* tzinfo, so the difference is that of the wall-clock times.
RemainingDays(target_date, now) == SubDays(target_date, now)

DailyMessage(user_id, target_date, now) ==
    LET days == RemainingDays(target_date, now)
    IN  IF days >= 0
        THEN [Push("daily", user_id, "days_remaining") EXCEPT !.n = days, !.date = strftime(target_date)]
        ELSE Push("daily", user_id, "date_passed")

\* next(iterator) and the loop body up to the await, from place job.pos
DailyAdvance(job) ==
    IF Len(user_dates) # job.used
    THEN /\ dailyJob' = Idle
         /\ out' = Ended("daily", "job_raised", job)
    ELSE IF job.pos = job.used
    THEN /\ dailyJob' = Idle
         /\ out' = Ended("daily", "job_returned", job)
    ELSE LET item == user_dates[job.pos + 1]
         IN  /\ dailyJob' = [job EXCEPT !.pc = "sending", !.pos = job.pos + 1]
             /\ out' = DailyMessage(item.k, item.v, job.now)

daily_reminder(day) ==
    DailyAdvance([Idle EXCEPT !.now = VnNow(day), !.used = Len(user_dates)])

\* send_message returns (delivered) or raises (caught and logged)
daily_reminder_resume(delivered) ==
    DailyAdvance([dailyJob EXCEPT !.failed = @ \/ ~delivered])

Due(i) ==
    LET current == GetOr(user_water_counts, user_water_info[i].k, 0)
        target == user_water_info[i].v.daily_target
    IN  current < target

\* The first item after place i for which the job sends, 0 if there is none.
NextDue(i, used) ==
    IF \E j \in (i + 1)..used : Due(j)
    THEN CHOOSE j \in (i + 1)..used : Due(j) /\ \A h \in (i + 1)..(j - 1) : ~Due(h)
    ELSE 0

WaterMessage(i) ==
    LET current == GetOr(user_water_counts, user_water_info[i].k, 0)
        target == user_water_info[i].v.daily_target
        remaining == target - current
    IN  [Push("water", user_water_info[i].k, "water_reminder") EXCEPT !.n = current, !.m = remaining]

WaterAdvance(job) ==
    IF Len(user_water_info) # job.used
    THEN /\ waterJob' = Idle
         /\ out' = Ended("water", "job_raised", job)
    ELSE LET j == NextDue(job.pos, job.used)
         IN  IF j = 0
             THEN /\ waterJob' = Idle
                  /\ out' = Ended("water", "job_returned", [job EXCEPT !.pos = job.used])
             ELSE /\ waterJob' = [job EXCEPT !.pc = "sending", !.pos = j]
                  /\ out' = WaterMessage(j)

water_reminder ==
    WaterAdvance([Idle EXCEPT !.used = Len(user_water_info)])

water_reminder_resume(delivered) ==
    WaterAdvance([waterJob EXCEPT !.failed = @ \/ ~delivered])

(***************************************************************************)
(* Startup: main() runs run_web() and run_bot() together; run_bot() builds *)
(* the application, initializes and starts it, registers the webhook and   *)
(* then waits on a future nobody resolves.  bot.pc is the await run_bot is *)
(* suspended in.  When run_bot returns or raises, main() ends and with it  *)
(* the process.                                                            *)
(***************************************************************************)

Alive == bot.pc \notin {"main", "crashed", "exited"}

\* run_bot up to its first await
run_bot ==
    /\ bot.pc = "main"
    /\ IF bot.token = None
       THEN bot' = [bot EXCEPT !.pc = "crashed"]                     \* raise ValueError, outside the try
       ELSE bot' = [bot EXCEPT !.pc = "initialize", !.app = TRUE]
    /\ UNCHANGED <<stores, dailyJob, waterJob, out, logged>>

\* Mutant: the error is logged and run_bot goes on to wait for updates.
Finally_swallow(b) == [b EXCEPT !.pc = "waiting", !.error = b.pc]

\* the except / finally of run_bot, entered from the await that raised
\* (error remembers which one)
Finally(b) ==
    IF b.app /\ b.running
    THEN [b EXCEPT !.pc = "stop", !.error = b.pc]
    ELSE [b EXCEPT !.pc = "exited", !.error = b.pc]

initialize(ok) ==
    /\ bot.pc = "initialize"
    /\ IF ok
       THEN bot' = [bot EXCEPT !.pc = "start", !.initialized = TRUE]
       ELSE bot' = Finally(bot)
    /\ UNCHANGED <<stores, dailyJob, waterJob, out, logged>>

\* await _bot_app.start(), then setup_webhook() up to its first await
app_start(ok) ==
    /\ bot.pc = "start"
    /\ IF ok
       THEN IF ~bot.url
            THEN bot' = [bot EXCEPT !.pc = "waiting", !.running = TRUE]      \* logs an error and returns
            ELSE bot' = [bot EXCEPT !.pc = "delete_webhook", !.running = TRUE]
       ELSE bot' = Finally(bot)
    /\ UNCHANGED <<stores, dailyJob, waterJob, out, logged>>

delete_webhook(ok) ==
    /\ bot.pc = "delete_webhook"
    /\ IF ok
       THEN bot' = [bot EXCEPT !.pc = "set_webhook", !.webhook = "none"]
       ELSE bot' = Finally(bot)
    /\ UNCHANGED <<stores, dailyJob, waterJob, out, logged>>

\* success is the value set_webhook returns; "raise" when it raises
set_webhook(success) ==
    /\ bot.pc = "set_webhook"
    /\ IF success = "True"
       THEN bot' = [bot EXCEPT !.pc = "waiting", !.webhook = "new"]
       ELSE bot' = Finally(bot)
    /\ UNCHANGED <<stores, dailyJob, waterJob, out, logged>>

app_stop ==
    /\ bot.pc = "stop"
    /\ bot' = [bot EXCEPT !.pc = "shutdown", !.running = FALSE]
    /\ UNCHANGED <<stores, dailyJob, waterJob, out, logged>>

app_shutdown ==
    /\ bot.pc = "shutdown"
    /\ bot' = [bot EXCEPT !.pc = "exited", !.initialized = FALSE]
    /\ UNCHANGED <<stores, dailyJob, waterJob, out, logged>>

(***************************************************************************)
(* Inputs                                                                  *)
(***************************************************************************)

\* The configured BOT_TOKEN, and the values a request's secret header takes
\* (None: the header is absent).
Token == "123:abc"
Headers == {None, Token, "456:xyz"}

\* Texts sent as the argument of /setdate.
May01 == <<"2","0","2","4","-","0","5","-","0","1">>
May14 == <<"2","0","2","4","-","0","5","-","1","4">>
DateTexts == {
    May01, May14,
    <<"2","0","2","4","-","5","-","1">>,
    <<"0","1","-","0","5","-","2","0","2","4">>,
    <<"2","0","2","4","-","0","2","-","3","0">>,
    <<"s","o","o","n">> }

DateArgs == {<<>>} \cup {<<t>> : t \in DateTexts}

\* Texts sent as the arguments of /sethealth.
T99 == <<"9","9">>
T100 == <<"1","0","0">>
T170 == <<"1","7","0">>
T30 == <<"3","0">>
T65 == <<"6","5">>
T201 == <<"2","0","1">>
Tnan == <<"n","a","n">>
Ttall == <<"t","a","l","l">>

HealthArgs == {
    <<>>, <<T170>>, <<T170, T65, T65>>,
    <<T170, T65>>, <<T100, T30>>,
    <<T99, T65>>, <<T170, T201>>,
    <<Ttall, T65>>, <<T170, Ttall>>, <<Tnan, T65>> }

\* The values datetime.now() takes when /countdown runs.
Nows == { Clock(2024, 5, 1, 0), Clock(2024, 5, 1, 43200), Clock(2024, 5, 4, 1) }

\* The UTC days on which the daily job fires.
FireDays == { Clock(2024, 5, 1, 0), Clock(2024, 5, 4, 0) }

Chat(users) == {Cmd(c, u, <<>>, NoClock) : c \in {"start", "help"}, u \in users}

DateCmds(users, args, nows) ==
    {Cmd("setdate", u, a, NoClock) : u \in users, a \in args}
    \cup {Cmd("countdown", u, <<>>, t) : u \in users, t \in nows}

HealthCmds(users, args) == {Cmd("sethealth", u, a, NoClock) : u \in users, a \in args}

WaterCmds(users) == {Cmd("water", u, <<>>, NoClock) : u \in users}

\* Every update the model knows.
Updates == Chat(Users) \cup DateCmds(Users, DateArgs, Nows) \cup HealthCmds(Users, HealthArgs) \cup WaterCmds(Users)

(***************************************************************************)
(* The state machine                                                       *)
(***************************************************************************)

Boot(token, url) ==
    [pc |-> "main", token |-> token, url |-> url, app |-> FALSE, initialized |-> FALSE,
     running |-> FALSE, webhook |-> "old", error |-> ""]

\* run_bot suspended in "await stop_signal" after a startup without error
Waiting ==
    [pc |-> "waiting", token |-> Token, url |-> TRUE, app |-> TRUE, initialized |-> TRUE,
     running |-> TRUE, webhook |-> "new", error |-> ""]

Empty ==
    /\ user_dates = <<>>
    /\ user_water_info = <<>>
    /\ user_water_counts = <<>>
    /\ dailyJob = Idle
    /\ waterJob = Idle
    /\ out = Nothing
    /\ logged = [u \in Users |-> 0]

Init ==
    /\ Empty
    /\ \E token \in {None, Token}, url \in BOOLEAN : bot = Boot(token, url)

\* The program once startup has succeeded, before any update has come.
Started ==
    /\ Empty
    /\ bot = Waiting

Webhook(updates) ==
    /\ Alive
    /\ \/ \E header \in Headers \ {bot.token} :
             handle_webhook(Request(header, CHOOSE u \in updates : TRUE))
       \/ \E update \in updates :
             /\ update.cmd = "water" => GetOr(user_water_counts, update.user, 0) < MaxWater * WaterStep
             /\ handle_webhook(Request(bot.token, update))
    /\ UNCHANGED <<bot, dailyJob, waterJob>>

DailyFire(days) ==
    /\ bot.running
    /\ dailyJob.pc = "idle"
    /\ \E day \in days : daily_reminder(day)
    /\ UNCHANGED <<stores, bot, waterJob, logged>>

DailyResume ==
    /\ Alive
    /\ dailyJob.pc = "sending"
    /\ \E delivered \in BOOLEAN : daily_reminder_resume(delivered)
    /\ UNCHANGED <<stores, bot, waterJob, logged>>

WaterFire ==
    /\ bot.running
    /\ waterJob.pc = "idle"
    /\ water_reminder
    /\ UNCHANGED <<stores, bot, dailyJob, logged>>

WaterResume ==
    /\ Alive
    /\ waterJob.pc = "sending"
    /\ \E delivered \in BOOLEAN : water_reminder_resume(delivered)
    /\ UNCHANGED <<stores, bot, dailyJob, logged>>

Startup ==
    \/ run_bot
    \/ \E ok \in BOOLEAN : initialize(ok)
    \/ \E ok \in BOOLEAN : app_start(ok)
    \/ \E ok \in BOOLEAN : delete_webhook(ok)
    \/ \E success \in {"True", "False", "raise"} : set_webhook(success)
    \/ app_stop
    \/ app_shutdown

Serve(updates, days) ==
    \/ Webhook(updates)
    \/ DailyFire(days)
    \/ DailyResume
    \/ WaterFire
    \/ WaterResume

\* The whole program.
Next == Startup \/ Serve(Updates, FireDays)

Spec == Init /\ [][Next]_vars

(***************************************************************************)
(* The program is checked in four runs.  Each has every operation of the   *)
(* program that can run in the states it explores; they differ in which    *)
(* inputs are drawn from the full sets above and which from a few values.  *)
(***************************************************************************)

\* Startup from main(), every environment and every outcome of the platform calls.
StartupUpdates ==
    Chat({101}) \cup DateCmds(Regulars, {<<May01>>}, {}) \cup HealthCmds({101}, {<<T100, T30>>})

StartupNext == Startup \/ Serve(StartupUpdates, {Clock(2024, 5, 1, 0)})

StartupSpec == Init /\ [][StartupNext]_vars

\* After startup: the date commands and the daily job on every input.
DateUpdates ==
    Chat(Regulars) \cup DateCmds(Regulars, DateArgs, Nows) \cup HealthCmds(Regulars, {<<T100, T30>>})

DateNext == Serve(DateUpdates, FireDays)

DateSpec == Started /\ [][DateNext]_vars

\* After startup: the hydration commands and the hydration job on every input.
WaterUpdates ==
    Chat({101}) \cup HealthCmds(Regulars, HealthArgs) \cup WaterCmds(Regulars)
    \cup DateCmds({101}, {<<May14>>}, {})

WaterNext == Serve(WaterUpdates, {Clock(2024, 5, 4, 0)})

WaterSpec == Started /\ [][WaterNext]_vars

\* After startup: three users register, one of them logs water.
CrowdUpdates ==
    HealthCmds(Users, {<<T100, T30>>}) \cup WaterCmds({101}) \cup DateCmds({101}, {<<May14>>}, {})

CrowdNext == Serve(CrowdUpdates, {Clock(2024, 5, 4, 0)})

CrowdSpec == Started /\ [][CrowdNext]_vars

(***************************************************************************)
(* Properties                                                              *)
(***************************************************************************)

\* The step answers a webhook request for command c with a 200.
Answered(c) == out'.src = "webhook" /\ out'.status = 200 /\ out'.req.cmd = c

\* User v's entry of a dict is the same after the step.
Same(d1, d0, v) == Has(d1, v) = Has(d0, v) /\ (Has(d0, v) => Get(d1, v) = Get(d0, v))

\* The seconds from b to a.
SecondsBetween(a, b) == (toordinal(a) - toordinal(b)) * DaySeconds + (a.secs - b.secs)

\* A text of decimal digits, and the number it writes.
Numeric(t) == Len(t) > 0 /\ \A i \in 1..Len(t) : IsDigit(t[i])

NumberOf(t) == DecimalValue(t, Len(t))

\* YYYY-MM-DD: four digits, two digits, two digits, naming a day of the calendar.
ValidYMD(t) ==
    /\ Len(t) = 10
    /\ \A i \in {1, 2, 3, 4, 6, 7, 9, 10} : IsDigit(t[i])
    /\ t[5] = "-" /\ t[8] = "-"
    /\ LET y == NumberOf(SubSeq(t, 1, 4))
           m == NumberOf(SubSeq(t, 6, 7))
           d == NumberOf(SubSeq(t, 9, 10))
       IN  y >= 1 /\ m \in 1..12 /\ d >= 1 /\ d <= DaysInMonth(y, m)

JobEnded == out.src \in {"daily", "water"} /\ out.kind \in {"job_returned", "job_raised"}

----
\* C1: a user's hydration counter is 250 times the number of that user's
\* successful /water calls since that user's last successful /sethealth; a
\* user without a profile has no counter, and a /water of such a user is
\* answered with the prerequisite error and changes nothing.  No job and no
\* other user's command changes the counter.
C1_CounterIsLoggedWater ==
    /\ [](\A u \in Users :
            IF Has(user_water_info, u)
            THEN Has(user_water_counts, u) /\ Get(user_water_counts, u) = WaterStep * logged[u]
            ELSE ~Has(user_water_counts, u))
    /\ [][\A u \in Users :
            /\ logged'[u] = IF Answered("water") /\ out'.kind = "water_added" /\ out'.to = u
                            THEN logged[u] + 1
                            ELSE IF Answered("sethealth") /\ out'.kind = "health_set" /\ out'.to = u
                            THEN 0
                            ELSE logged[u]
            /\ (Answered("water") /\ out'.req.user = u /\ ~Has(user_water_info, u))
                  => (out'.kind = "set_health_first" /\ stores' = stores)
            /\ (Answered("water") /\ out'.req.user = u /\ Has(user_water_info, u))
                  => out'.kind = "water_added"
            /\ ~(out'.src = "webhook" /\ out'.req.user = u)
                  => Same(user_water_counts', user_water_counts, u)]_vars

\* One user has logged twice, the other three times, and the hydration job has just sent.
C1_Witness ==
    /\ \E u, v \in Users : u # v /\ GetOr(user_water_counts, u, 0) = 2 * WaterStep
                                  /\ GetOr(user_water_counts, v, 0) = 3 * WaterStep
    /\ out.src = "water" /\ out.kind = "water_reminder"

----
\* C2: a command that ends in a validation error or a missing-prerequisite
\* error leaves the three stores as they were: /setdate without argument or
\* with a text that is not a valid YYYY-MM-DD date, /sethealth with other
\* than two arguments, a text that is no number, a height outside [100,250]
\* or a weight outside [30,200], /countdown without a stored date, /water
\* without a profile.
C2_ErrorsChangeNothing ==
    [][LET r == out'.req
           bad == \/ /\ r.cmd = "setdate"
                     /\ (Len(r.args) = 0 \/ ~ValidYMD(r.args[1]))
                  \/ /\ r.cmd = "sethealth"
                     /\ \/ Len(r.args) # 2
                        \/ ~Numeric(r.args[1]) \/ ~Numeric(r.args[2])
                        \/ NumberOf(r.args[1]) < MinHeight \/ NumberOf(r.args[1]) > MaxHeight
                        \/ NumberOf(r.args[2]) < MinWeight \/ NumberOf(r.args[2]) > MaxWeight
                  \/ r.cmd = "countdown" /\ ~Has(user_dates, r.user)
                  \/ r.cmd = "water" /\ ~Has(user_water_info, r.user)
       IN  (out'.src = "webhook" /\ out'.status = 200 /\ bad) => stores' = stores]_vars

----
\* C3: in a firing of either reminder job in which a send raised, the job
\* still returns without raising, having gone through every user that was
\* in its store when the firing began.
C3_FailureDoesNotAbort ==
    (JobEnded /\ out.fail) => (out.kind = "job_returned" /\ out.n = out.m)

----
\* C4: the daily job sends a user whose target date is N calendar days after
\* the current date in the +07:00 zone "N days remaining" when N >= 0, and
\* "date has passed" when the target date is before the current date.
C4_DailyCountsCalendarDays ==
    (dailyJob.pc = "sending" /\ out.src = "daily" /\ out.to = user_dates[dailyJob.pos].k)
        => LET target == user_dates[dailyJob.pos].v
               N == toordinal(target) - toordinal(dailyJob.now)
           IN  IF N >= 0
               THEN out.kind = "days_remaining" /\ out.n = N
               ELSE out.kind = "date_passed"

----
\* C5: /countdown answers from the date the user's last successful /setdate
\* stored: without one, the prompt to set it; otherwise with N = floor of
\* (target date at 00:00 - now) in days, "N days remaining" when N >= 0 and
\* "date has passed" when it is negative.  /countdown changes no store.
C5_CountdownIsFloor ==
    [][LET u == out'.req.user
       IN  /\ Answered("countdown") =>
                /\ stores' = stores
                /\ IF ~Has(user_dates, u)
                   THEN out'.kind = "set_date_first"
                   ELSE LET diff == SecondsBetween(Get(user_dates, u), out'.req.now)
                        IN  IF diff >= 0
                            THEN /\ out'.kind = "days_remaining"
                                 /\ out'.n * DaySeconds <= diff
                                 /\ diff < (out'.n + 1) * DaySeconds
                            ELSE out'.kind = "date_passed"
           /\ IF Answered("setdate") /\ out'.kind = "date_set"
              THEN /\ Has(user_dates', u)
                   /\ Get(user_dates', u) = strptime(out'.req.args[1]).val
                   /\ \A v \in Users \ {u} : Same(user_dates', user_dates, v)
              ELSE user_dates' = user_dates]_vars

\* 2024-05-14 seen from 2024-05-04 00:00:01: 9 days and 23:59:59 remain.
C5_Witness ==
    /\ out.src = "webhook" /\ out.req.cmd = "countdown" /\ out.req.now.secs = 1
    /\ out.kind = "days_remaining" /\ out.n = 9

----
\* C6: /sethealth with exactly two numbers, height in [100,250] and weight
\* in [30,200], stores for the caller the profile with daily target
\* weight * 35 and sets the caller's counter to 0; the other users'
\* profiles and counters and the target dates stay as they were.
C6_SetHealthStoresAndResets ==
    [][LET r == out'.req
           u == r.user
       IN  ( /\ Answered("sethealth")
             /\ Len(r.args) = 2
             /\ Numeric(r.args[1]) /\ Numeric(r.args[2])
             /\ NumberOf(r.args[1]) \in MinHeight..MaxHeight
             /\ NumberOf(r.args[2]) \in MinWeight..MaxWeight )
           => /\ out'.kind = "health_set"
              /\ Has(user_water_info', u)
              /\ Get(user_water_info', u) =
                    [height |-> NumberOf(r.args[1]), weight |-> NumberOf(r.args[2]),
                     daily_target |-> NumberOf(r.args[2]) * MlPerKg]
              /\ Has(user_water_counts', u)
              /\ Get(user_water_counts', u) = 0
              /\ \A v \in Users \ {u} :
                    /\ Same(user_water_info', user_water_info, v)
                    /\ Same(user_water_counts', user_water_counts, v)
              /\ user_dates' = user_dates]_vars

\* (100, 30) has just been stored (target 1050) while the other user has water logged and a date is stored.
C6_Witness ==
    /\ out.src = "webhook" /\ out.kind = "health_set" /\ out.n = 1050
    /\ Get(user_water_counts, out.to) = 0
    /\ \E v \in Users \ {out.to} : GetOr(user_water_counts, v, 0) > 0
    /\ Len(user_dates) > 0

----
\* C7: in each firing of the hydration job a send is attempted for a user
\* exactly if the user has a profile and a counter below the daily target;
\* the message gives the counter and target - counter > 0.
C7_HydrationSendsExactlyToDue ==
    /\ (waterJob.pc = "sending" /\ out.src = "water" /\ out.kind = "water_reminder")
          => /\ Has(user_water_info, out.to)
             /\ out.n = GetOr(user_water_counts, out.to, 0)
             /\ out.m = Get(user_water_info, out.to).daily_target - out.n
             /\ out.m > 0
    /\ (out.src = "water" /\ out.kind \in {"job_returned", "job_raised"})
          => \A j \in (out.n + 1)..out.m : ~Due(j)

----
\* C8: a POST /webhook whose secret header is absent or is not the bot token
\* is answered 403, is not handed to the dispatcher and changes no store;
\* one with the right header is handed to the dispatcher once and answered 200.
C8_WebhookChecksSecret ==
    [][out'.src = "webhook" =>
          IF out'.req.header = bot.token
          THEN out'.status = 200 /\ out'.disp = 1
          ELSE out'.status = 403 /\ out'.disp = 0 /\ stores' = stores /\ logged' = logged]_vars

\* A request without the header has just been refused while the stores hold entries.
C8_Witness ==
    /\ out.src = "webhook" /\ out.status = 403 /\ out.req.header = None
    /\ Len(user_dates) > 0 /\ Len(user_water_info) > 0

----
\* C9: the new webhook is registered only after the old one was deleted; if
\* BOT_TOKEN is absent or the registration fails (set_webhook raises or
\* returns false) run_bot never waits for updates, the application ends
\* stopped and shut down, and the process ends.
C9_StartupErrorsAreFatal ==
    /\ []( (bot.token = None \/ bot.error = "set_webhook") =>
             /\ bot.pc # "waiting"
             /\ bot.webhook # "new"
             /\ bot.pc \in {"crashed", "exited"} \/ ENABLED Startup
             /\ bot.pc \in {"crashed", "exited"} => (~bot.running /\ ~bot.initialized) )
    /\ [][(bot'.webhook = "new" /\ bot.webhook # "new") => bot.webhook = "none"]_vars

\* The registration failed and the process has ended, after updates were handled.
C9_Witness ==
    bot.error = "set_webhook" /\ bot.pc = "exited" /\ Len(user_dates) > 0

----
\* C10: a command that adds a user to the store a reminder job is iterating,
\* handled while the job is suspended in a send, does not disturb the job:
\* the firing returns without raising, having gone through every user that
\* was in the store when it began.
C10_JobsSurviveStoreChanges ==
    JobEnded => (out.kind = "job_returned" /\ out.n = out.m)

====
